---- MODULE Spec2Model ----
(***************************************************************************)
(* Model of the crossover-activity middleware.                             *)
(*                                                                         *)
(*   - Activity (src/unnamed/part_000, later revision, lines 214-441):     *)
(*     body interception, sub-request counting, the bounded queue and the  *)
(*     batchProcessor aggregator with its flush timer.                     *)
(*   - RequestCrossover (src/plugin.go, lines 173-388): the rate-limit     *)
(*     variant with its process-wide usage/limit map and refresh ticker.   *)
(*   - RequestLogger (src/plugin.go, lines 1-171): the fire-and-forget     *)
(*     variant, one log goroutine per request, with its buffer pool.       *)
(*                                                                         *)
(* The specifications share the variables: Spec (the telemetry pipeline),  *)
(* SpecLive (Spec under fair scheduling), SpecBody (body interception as a *)
(* function of the body), SpecCount (requestCount as a function of the     *)
(* request), SpecRate (rate limit) and SpecLogger (fire-and-forget).       *)
(***************************************************************************)
EXTENDS Integers, Sequences, FiniteSets, TLC

VARIABLES
    config,          \* the Config handed to New
    act,             \* the Activity built by New: state, cap, batchSize, flushInterval
    logsChannel,     \* a.logsChannel: the buffered channel, oldest entry first
    batch,           \* batchProcessor's local batch
    agg,             \* batchProcessor: pc, flush kind, flushTimer (left, C)
    reqs,            \* one record per request task of Activity.ServeHTTP
    drops,           \* number of "Dropped some log entries" log lines
    posts,           \* history: the batch of every call of flushLogs, in order
    accepted,        \* history: the entries the queue accepted, in acceptance order
    outcome,         \* history: how the latest call of flushLogs ended
    clock,           \* history: time since the last flush, and what the latest flush read
    crashed,         \* the process died of an unrecovered panic
    call,            \* SpecBody / SpecCount: the input and the result of one call
    userUsageLimit,  \* rate-limit variant: the process-wide map
    crossover,       \* rate-limit variant: the RequestCrossover built by New
    rl,              \* rate-limit variant: one record per request task
    ticker,          \* rate-limit variant: the Ticking goroutine
    bufferPool,      \* fire-and-forget variant: the buffers idle in the sync.Pool
    buffers,         \* fire-and-forget variant: the backing array of each buffer made
    lg               \* fire-and-forget variant: one record per request (ServeHTTP, log)

vars == << config, act, logsChannel, batch, agg, reqs, drops, posts, accepted, outcome,
           clock, crashed, call, userUsageLimit, crossover, rl, ticker,
           bufferPool, buffers, lg >>

pipeVars == << config, act, logsChannel, batch, agg, reqs, drops, posts, accepted, outcome,
               clock, crashed >>
rateVars == << userUsageLimit, crossover, rl, ticker >>
loggerVars == << bufferPool, buffers, lg >>

-----------------------------------------------------------------------------
(* Program constants.                                                      *)

MaxRequestBodySize == 2097152
DefaultLogBufferSize == 100000
DefaultMaxBatchSize == 20
DefaultBatchFlushInterval == 2
StatusBadRequest == 400
StatusTooManyRequests == 429
StatusInternalServerError == 500

(* Bounds of the model.                                                    *)

NumRequests == 3     \* request tasks of the telemetry variant
MaxBodyLen == 4      \* length of the enumerated JSON bodies
MaxRuns == 2         \* runs of an enumerated large body
NumRateRequests == 3 \* request tasks of the rate-limit variant

Min(a, b) == IF a < b THEN a ELSE b
NoFail == 0 - 1      \* failAt of a stream that never fails

-----------------------------------------------------------------------------
(* Bytes.  A body is a sequence of runs [b, n]: n >= 1 copies of byte b,   *)
(* so that a body longer than MaxRequestBodySize can be written down.      *)

RECURSIVE BodyLen(_)
BodyLen(runs) ==
    IF runs = << >> THEN 0 ELSE runs[1].n + BodyLen(Tail(runs))

\* The byte at 1-based position i of runs (i within the body).
RECURSIVE ByteAt(_, _)
ByteAt(runs, i) ==
    IF i <= runs[1].n THEN runs[1].b ELSE ByteAt(Tail(runs), i - runs[1].n)

\* The first k bytes of runs (all of it when it is shorter).
RECURSIVE Take(_, _)
Take(runs, k) ==
    IF k <= 0 \/ runs = << >> THEN << >>
    ELSE IF runs[1].n <= k
         THEN << runs[1] >> \o Take(Tail(runs), k - runs[1].n)
         ELSE << [b |-> runs[1].b, n |-> k] >>

\* The 1-based positions at which a run of runs starts.
RECURSIVE RunStarts(_, _)
RunStarts(runs, from) ==
    IF runs = << >> THEN {}
    ELSE {from} \cup RunStarts(Tail(runs), from + runs[1].n)

\* The bytes of runs, one element per byte (short bodies only).
RECURSIVE Expand(_)
Expand(runs) ==
    IF runs = << >> THEN << >>
    ELSE [k \in 1..runs[1].n |-> runs[1].b] \o Expand(Tail(runs))

\* A sequence of bytes as runs of length one.
ToRuns(s) == [i \in 1..Len(s) |-> [b |-> s[i], n |-> 1]]

-----------------------------------------------------------------------------
(* io.CopyN(buf, src, n) on a stream src = [data, failAt]: the stream      *)
(* yields the bytes of data and, when failAt is a number, fails with a     *)
(* read error once failAt bytes have been delivered.  CopyN reads through  *)
(* a LimitedReader, so it never asks for more than n bytes; failAt is      *)
(* NoFail for a stream that never fails.                                   *)

CopyNBroken(src, n) ==
    LET len == BodyLen(src.data)
    IN  [buf |-> src.data, written |-> len, err |-> IF len < n THEN "EOF" ELSE "nil"]

CopyN(src, n) ==
    LET len == BodyLen(src.data)
        fails == src.failAt # NoFail /\ src.failAt <= len /\ src.failAt < n
        written == IF fails THEN src.failAt ELSE Min(len, n)
    IN  [buf |-> Take(src.data, written),
         written |-> written,
         err |-> IF fails THEN "readError"
                 ELSE IF written < n THEN "EOF" ELSE "nil"]

\* bytes.NewReader(buf.Bytes()) behind io.NopCloser: an independent read position.
NewReader(bytes) == [data |-> bytes, pos |-> 0, closed |-> FALSE]

\* runs without its first k bytes.
RECURSIVE Drop(_, _)
Drop(runs, k) ==
    IF runs = << >> THEN << >>
    ELSE IF k <= 0 THEN runs
    ELSE IF runs[1].n <= k THEN Drop(Tail(runs), k - runs[1].n)
    ELSE << [b |-> runs[1].b, n |-> runs[1].n - k] >> \o Tail(runs)

(* A handler reads a body to its end: the bytes from the reader's position  *)
(* on.  Close of an io.NopCloser does nothing, so a closed body reads the   *)
(* same.                                                                    *)
ReadAll(reader) ==
    [bytes |-> Drop(reader.data, reader.pos),
     body |-> [reader EXCEPT !.pos = BodyLen(reader.data)]]

\* The interception with the error check left out: whatever was read is passed on.
InterceptIgnoresError(src) ==
    LET r == CopyN(src, MaxRequestBodySize)
    IN  [ok |-> TRUE, err |-> r.err, status |-> 0,
         body |-> NewReader(r.buf), clone |-> NewReader(r.buf)]

(* The first half of ServeHTTP: read at most MaxRequestBodySize bytes, and *)
(* either answer 500 or build the downstream body and the cloned one.      *)
Intercept(src) ==
    LET r == CopyN(src, MaxRequestBodySize)
    IN  IF r.err # "nil" /\ r.err # "EOF"
        THEN [ok |-> FALSE, err |-> r.err, status |-> StatusInternalServerError]
        ELSE [ok |-> TRUE, err |-> r.err, status |-> 0,
              body |-> NewReader(r.buf), clone |-> NewReader(r.buf)]

-----------------------------------------------------------------------------
(* encoding/json: Decoder.Decode into a []interface{}.  The decoder scans  *)
(* the first JSON value of the stream and ignores what follows it.  The    *)
(* grammar covers arrays, objects, strings without escapes, unsigned       *)
(* integers and null; a value is reported as [ok, next, kind, n].          *)

Digits == {"0", "1", "2", "3", "4", "5", "6", "7", "8", "9"}
Bad == [ok |-> FALSE, next |-> 0, kind |-> "error", n |-> 0]
Good(kind, next, n) == [ok |-> TRUE, next |-> next, kind |-> kind, n |-> n]

RECURSIVE SkipSpace(_, _)
SkipSpace(s, i) ==
    IF i <= Len(s) /\ s[i] = " " THEN SkipSpace(s, i + 1) ELSE i

RECURSIVE SkipDigits(_, _)
SkipDigits(s, i) ==
    IF i <= Len(s) /\ s[i] \in Digits THEN SkipDigits(s, i + 1) ELSE i

\* The position after the closing quote of a string whose opening quote is before i; 0 if none.
RECURSIVE StringEnd(_, _)
StringEnd(s, i) ==
    IF i > Len(s) THEN 0
    ELSE IF s[i] = "\"" THEN i + 1 ELSE StringEnd(s, i + 1)

IsNullAt(s, i) ==
    /\ i + 3 <= Len(s)
    /\ s[i] = "n" /\ s[i + 1] = "u" /\ s[i + 2] = "l" /\ s[i + 3] = "l"

RECURSIVE ParseValue(_, _)
RECURSIVE ParseElements(_, _, _)
RECURSIVE ParseMembers(_, _)

ParseValue(s, i) ==
    LET j == SkipSpace(s, i)
    IN  IF j > Len(s) THEN Bad
        ELSE IF s[j] = "[" THEN
            LET k == SkipSpace(s, j + 1)
            IN  IF k <= Len(s) /\ s[k] = "]" THEN Good("array", k + 1, 0)
                ELSE ParseElements(s, k, 0)
        ELSE IF s[j] = "{" THEN
            LET k == SkipSpace(s, j + 1)
            IN  IF k <= Len(s) /\ s[k] = "}" THEN Good("object", k + 1, 0)
                ELSE ParseMembers(s, k)
        ELSE IF s[j] = "\"" THEN
            LET e == StringEnd(s, j + 1)
            IN  IF e = 0 THEN Bad ELSE Good("string", e, 0)
        ELSE IF s[j] = "0" THEN Good("number", j + 1, 0)
        ELSE IF s[j] \in Digits THEN Good("number", SkipDigits(s, j + 1), 0)
        ELSE IF IsNullAt(s, j) THEN Good("null", j + 4, 0)
        ELSE Bad

\* An element is expected at i; count elements precede it.
ParseElements(s, i, count) ==
    LET v == ParseValue(s, i)
    IN  IF ~v.ok THEN Bad
        ELSE LET k == SkipSpace(s, v.next)
             IN  IF k > Len(s) THEN Bad
                 ELSE IF s[k] = "]" THEN Good("array", k + 1, count + 1)
                 ELSE IF s[k] = "," THEN ParseElements(s, k + 1, count + 1)
                 ELSE Bad

\* A member "key": value is expected at i.
ParseMembers(s, i) ==
    LET j == SkipSpace(s, i)
    IN  IF j > Len(s) \/ s[j] # "\"" THEN Bad
        ELSE LET e == StringEnd(s, j + 1)
                 c == SkipSpace(s, e)
             IN  IF e = 0 \/ c > Len(s) \/ s[c] # ":" THEN Bad
                 ELSE LET v == ParseValue(s, c + 1)
                      IN  IF ~v.ok THEN Bad
                          ELSE LET k == SkipSpace(s, v.next)
                               IN  IF k > Len(s) THEN Bad
                                   ELSE IF s[k] = "}" THEN Good("object", k + 1, 0)
                                   ELSE IF s[k] = "," THEN ParseMembers(s, k + 1)
                                   ELSE Bad

(* decoder.Decode(&requests) with requests a []interface{}: a syntax error *)
(* or end of input is an error; an array gives its elements; null leaves   *)
(* the slice nil without an error; any other value is a type error.        *)
DecodeSlice(bytes) ==
    LET v == ParseValue(bytes, 1)
    IN  IF ~v.ok THEN [err |-> TRUE, len |-> 0]
        ELSE IF v.kind = "array" THEN [err |-> FALSE, len |-> v.n]
        ELSE IF v.kind = "null" THEN [err |-> FALSE, len |-> 0]
        ELSE [err |-> TRUE, len |-> 0]

-----------------------------------------------------------------------------
(* requestCount(req), later revision: req = [contentType, body] with body  *)
(* a reader.  The result carries the reader as the call leaves it.         *)

requestCountFallbackZero(req) ==
    IF req.contentType # "application/json"
    THEN [count |-> 1, body |-> req.body]
    ELSE LET d == DecodeSlice(Expand(req.body.data))
         IN  [count |-> IF d.err THEN 0 ELSE d.len,
              body |-> [req.body EXCEPT !.pos = BodyLen(req.body.data), !.closed = TRUE]]

requestCount(req) ==
    IF req.contentType # "application/json"
    THEN [count |-> 1, body |-> req.body]
    ELSE LET d == DecodeSlice(Expand(req.body.data))
         IN  [count |-> IF d.err THEN 1 ELSE d.len,
              body |-> [req.body EXCEPT !.pos = BodyLen(req.body.data), !.closed = TRUE]]

(* requestCount(req), earlier revision: 0 on a decode error, and the body  *)
(* is drained and closed only after a successful decode.  A failed Decode  *)
(* leaves the body open at the point the decoder has read it to: the       *)
(* decoder fills its buffer 512 bytes or more at a time before it scans,   *)
(* which is the whole of a body as short as the ones counted here.         *)
requestCountEarlier(req) ==
    IF req.contentType # "application/json"
    THEN [count |-> 1, body |-> req.body]
    ELSE LET d == DecodeSlice(Expand(req.body.data))
         IN  IF d.err
             THEN [count |-> 0,
                   body |-> [req.body EXCEPT !.pos = Min(BodyLen(req.body.data), 512)]]
             ELSE [count |-> d.len,
                   body |-> [req.body EXCEPT !.pos = BodyLen(req.body.data),
                                             !.closed = TRUE]]

(* a.requestKey(path): the leftmost match of the compiled pattern, or "".  *)
(* A path is its sequence of segments and a pattern the set of segments    *)
(* it matches.                                                             *)
RECURSIVE FirstMatch(_, _)
FirstMatch(pattern, path) ==
    IF path = << >> THEN ""
    ELSE IF path[1] \in pattern THEN path[1]
    ELSE FirstMatch(pattern, Tail(path))

requestKey(pattern, path) == FirstMatch(pattern, path)

-----------------------------------------------------------------------------
(* New (Activity).  A pattern is known by its source text; PatternMatches  *)
(* gives the segments a pattern that compiles matches.                     *)

IdPattern == "(id[0-9])"
BadPattern == "("
Compiles(p) == p # BadPattern
PatternMatches(p) == IF p = IdPattern THEN {"id1", "id2", "id3", "id4"} ELSE {}

Collector == "http://collector/logs"
BadURL == "://collector"
ParsesAsURL(u) == u # BadURL

MkConfig(pattern, remote, key, buffer, size, interval) ==
    [Pattern |-> pattern, RemoteAddress |-> remote, APIKey |-> key,
     BufferSize |-> buffer, BatchSize |-> size, FlushInterval |-> interval]

\* The configurations New is given: sizes left to their defaults, small sizes, a
\* negative batch size, a collector address that does not parse, and one of each
\* configuration New rejects.
Configs ==
    {MkConfig(IdPattern, Collector, "key", 0, 0, 0),
     MkConfig(IdPattern, Collector, "key", 1, 2, 1),
     MkConfig(IdPattern, Collector, "key", 2, 0 - 1, 1),
     MkConfig(IdPattern, BadURL, "key", 1, 2, 1),
     MkConfig(IdPattern, Collector, "", 1, 2, 1),
     MkConfig("", Collector, "key", 1, 2, 1),
     MkConfig(IdPattern, "", "key", 1, 2, 1),
     MkConfig(BadPattern, Collector, "key", 1, 2, 1),
     MkConfig(IdPattern, Collector, "key", 0 - 1, 2, 1)}

NotBuilt == [state |-> "none", err |-> "", cap |-> 0, batchSize |-> 0,
             flushInterval |-> 0, pattern |-> {}, remoteAddress |-> ""]

\* New without the check of RemoteAddress.
NewActivityNoAddressCheck(c) ==
    IF c.APIKey = "" THEN [NotBuilt EXCEPT !.state = "error", !.err = "APIKey can't be empty"]
    ELSE IF c.Pattern = ""
         THEN [NotBuilt EXCEPT !.state = "error", !.err = "pattern can't be empty"]
    ELSE [state |-> "running", err |-> "",
          cap |-> IF c.BufferSize = 0 THEN DefaultLogBufferSize ELSE c.BufferSize,
          batchSize |-> IF c.BatchSize = 0 THEN DefaultMaxBatchSize ELSE c.BatchSize,
          flushInterval |-> IF c.FlushInterval = 0 THEN DefaultBatchFlushInterval
                            ELSE c.FlushInterval,
          pattern |-> PatternMatches(c.Pattern), remoteAddress |-> c.RemoteAddress]

NewActivity(c) ==
    IF c.APIKey = "" THEN [NotBuilt EXCEPT !.state = "error", !.err = "APIKey can't be empty"]
    ELSE IF c.Pattern = ""
         THEN [NotBuilt EXCEPT !.state = "error", !.err = "pattern can't be empty"]
    ELSE IF c.RemoteAddress = ""
         THEN [NotBuilt EXCEPT !.state = "error", !.err = "RemoteAddress can't be empty"]
    ELSE LET bufferSize == IF c.BufferSize = 0 THEN DefaultLogBufferSize ELSE c.BufferSize
             batchSize == IF c.BatchSize = 0 THEN DefaultMaxBatchSize ELSE c.BatchSize
             interval == IF c.FlushInterval = 0 THEN DefaultBatchFlushInterval
                         ELSE c.FlushInterval
         IN  IF ~Compiles(c.Pattern)        \* regexp.MustCompile panics
             THEN [NotBuilt EXCEPT !.state = "panic", !.err = "regexp: Compile"]
             ELSE IF bufferSize < 0         \* make(chan, n) panics for n < 0
             THEN [NotBuilt EXCEPT !.state = "panic", !.err = "makechan: size out of range"]
             ELSE [state |-> "running", err |-> "", cap |-> bufferSize,
                   batchSize |-> batchSize, flushInterval |-> interval,
                   pattern |-> PatternMatches(c.Pattern),
                   remoteAddress |-> c.RemoteAddress]

\* The Config New was handed, once New has returned or panicked: New writes the
\* defaults through the pointer after the checks of the three strings and before
\* the pattern is compiled, so a rejected configuration is left as it was.
ConfigAfterNew(c) ==
    IF c.APIKey = "" \/ c.Pattern = "" \/ c.RemoteAddress = ""
    THEN c
    ELSE [c EXCEPT !.BufferSize = IF @ = 0 THEN DefaultLogBufferSize ELSE @,
                   !.BatchSize = IF @ = 0 THEN DefaultMaxBatchSize ELSE @,
                   !.FlushInterval = IF @ = 0 THEN DefaultBatchFlushInterval ELSE @]

Requests == 1..NumRequests

\* What a request task starts from.
IdleRequest == [pc |-> "idle", err |-> "", status |-> 0, forwarded |-> 0,
                entry |-> << >>, body |-> << >>, clone |-> << >>, down |-> << >>]

\* batchProcessor before New has started it.
AggOff == [pc |-> "off", kind |-> "none", timerLeft |-> 0, timerC |-> FALSE]

\* The requests the pipeline is driven with, [path, contentType, stream]: task r
\* brings either a request that can be read or one whose body fails to read.
JsonBatch == ToRuns(<< "[", "1", ",", "2", "]" >>)
JsonObject == ToRuns(<< "{", "\"", "a", "\"", ":", "1", "}" >>)
ReadableInput(r) ==
    IF r % 3 = 1
    THEN [path |-> << "v1", "id1", "items" >>, contentType |-> "application/json",
          stream |-> [data |-> JsonBatch, failAt |-> NoFail]]
    ELSE IF r % 3 = 2
    THEN [path |-> << "health" >>, contentType |-> "text/plain",
          stream |-> [data |-> ToRuns(<< "o", "k" >>), failAt |-> NoFail]]
    ELSE [path |-> << "v1", "id3" >>, contentType |-> "application/json",
          stream |-> [data |-> JsonObject, failAt |-> NoFail]]
RequestInputs(r) ==
    {ReadableInput(r), [ReadableInput(r) EXCEPT !.stream.failAt = 1]}

\* What client.Do brings back from the collector.
FlushOutcomes == {"200", "503", "transportError", "timeout"}

New ==
    /\ act.state = "none"
    /\ act' = NewActivity(config)
    /\ config' = ConfigAfterNew(config)
    /\ agg' = IF act'.state = "running"
              THEN [pc |-> "select", kind |-> "none",
                    timerLeft |-> act'.flushInterval, timerC |-> FALSE]
              ELSE agg
    /\ UNCHANGED << logsChannel, batch, reqs, drops, posts, outcome, clock, crashed >>
    /\ UNCHANGED << accepted, call, rateVars, loggerVars >>

Alive == act.state = "running" /\ ~crashed

\* ServeHTTP with the clone left with the body req.Clone gave it: the reader of req.
ServeReadSharedBody(r, in) ==
    /\ Alive
    /\ reqs[r].pc = "idle"
    /\ \A q \in Requests : q < r => reqs[q].pc # "idle"
    /\ LET i == Intercept(in.stream)
       IN  IF ~i.ok
           THEN reqs' = [reqs EXCEPT ![r] =
                   [@ EXCEPT !.pc = "done", !.err = i.err, !.status = i.status]]
           ELSE LET c == requestCount([contentType |-> in.contentType, body |-> i.clone])
                IN  reqs' = [reqs EXCEPT ![r] =
                        [@ EXCEPT !.pc = "enqueue", !.err = i.err,
                                  !.entry = << [request_id |-> requestKey(act.pattern, in.path),
                                                count |-> c.count, src |-> r] >>,
                                  !.body = << c.body >>,
                                  !.clone = << c.body >>]]
    /\ UNCHANGED << config, act, logsChannel, batch, agg, drops, posts, outcome, clock, crashed >>
    /\ UNCHANGED << accepted, call, rateVars, loggerVars >>

(* Activity.ServeHTTP up to the log entry: read the body, answer 500 on a  *)
(* read error, else build the two bodies and the log entry.                *)
ServeRead(r, in) ==
    /\ Alive
    /\ reqs[r].pc = "idle"
    /\ \A q \in Requests : q < r => reqs[q].pc # "idle"
    /\ LET i == Intercept(in.stream)
       IN  IF ~i.ok
           THEN reqs' = [reqs EXCEPT ![r] =
                   [@ EXCEPT !.pc = "done", !.err = i.err, !.status = i.status]]
           ELSE LET c == requestCount([contentType |-> in.contentType, body |-> i.clone])
                IN  reqs' = [reqs EXCEPT ![r] =
                        [@ EXCEPT !.pc = "enqueue", !.err = i.err,
                                  !.entry = << [request_id |-> requestKey(act.pattern, in.path),
                                                count |-> c.count, src |-> r] >>,
                                  !.body = << i.body >>,
                                  !.clone = << c.body >>]]
    /\ UNCHANGED << config, act, logsChannel, batch, agg, drops, posts, outcome, clock, crashed >>
    /\ UNCHANGED << accepted, call, rateVars, loggerVars >>

\* A send that waits for room instead of dropping.
EnqueueBlocking(r) ==
    /\ Alive
    /\ reqs[r].pc = "enqueue"
    /\ Len(logsChannel) < act.cap
    /\ logsChannel' = Append(logsChannel, reqs[r].entry[1])
    /\ accepted' = Append(accepted, reqs[r].entry[1])
    /\ reqs' = [reqs EXCEPT ![r].pc = "forward"]
    /\ UNCHANGED << config, act, batch, agg, drops, posts, outcome, clock, crashed >>
    /\ UNCHANGED << call, rateVars, loggerVars >>

(* select { case a.logsChannel <- logEntry: default: log.Printf(...) }     *)
Enqueue(r) ==
    /\ Alive
    /\ reqs[r].pc = "enqueue"
    /\ IF Len(logsChannel) < act.cap
       THEN /\ logsChannel' = Append(logsChannel, reqs[r].entry[1])
            /\ accepted' = Append(accepted, reqs[r].entry[1])
            /\ drops' = drops
       ELSE /\ logsChannel' = logsChannel
            /\ accepted' = accepted
            /\ drops' = drops + 1
    /\ reqs' = [reqs EXCEPT ![r].pc = "forward"]
    /\ UNCHANGED << config, act, batch, agg, posts, outcome, clock, crashed >>
    /\ UNCHANGED << call, rateVars, loggerVars >>

(* a.next.ServeHTTP(rw, req): the downstream handler reads req.Body to its  *)
(* end.                                                                     *)
Forward(r) ==
    /\ Alive
    /\ reqs[r].pc = "forward"
    /\ LET d == ReadAll(reqs[r].body[1])
       IN  reqs' = [reqs EXCEPT ![r] = [@ EXCEPT !.pc = "done", !.forwarded = @ + 1,
                                                 !.body = << d.body >>,
                                                 !.down = << d.bytes >>]]
    /\ UNCHANGED << config, act, logsChannel, batch, agg, drops, posts, outcome, clock, crashed >>
    /\ UNCHANGED << accepted, call, rateVars, loggerVars >>

\* The clock at a call of flushLogs: what it read is kept, and the time since the last flush restarts.
ClockAtFlush ==
    [clock EXCEPT !.gap = clock.sinceFlush, !.armGap = clock.sinceArm, !.sinceFlush = 0]

\* The receive case with the entry put at the front of the batch.
AggReceivePrepends ==
    /\ Alive
    /\ agg.pc = "select"
    /\ logsChannel # << >>
    /\ logsChannel' = Tail(logsChannel)
    /\ batch' = << Head(logsChannel) >> \o batch
    /\ IF Len(batch') >= act.batchSize
       THEN /\ agg' = [agg EXCEPT !.pc = "flush", !.kind = "size"]
            /\ posts' = Append(posts, batch')
            /\ clock' = ClockAtFlush
       ELSE UNCHANGED << agg, posts, clock >>
    /\ UNCHANGED << config, act, reqs, drops, outcome, crashed >>
    /\ UNCHANGED << accepted, call, rateVars, loggerVars >>

(* batchProcessor, case logEntry := <-a.logsChannel, up to the call of     *)
(* flushLogs.                                                              *)
AggReceive ==
    /\ Alive
    /\ agg.pc = "select"
    /\ logsChannel # << >>
    /\ logsChannel' = Tail(logsChannel)
    /\ batch' = Append(batch, Head(logsChannel))
    /\ IF Len(batch') >= act.batchSize
       THEN /\ agg' = [agg EXCEPT !.pc = "flush", !.kind = "size"]
            /\ posts' = Append(posts, batch')
            /\ clock' = ClockAtFlush
       ELSE UNCHANGED << agg, posts, clock >>
    /\ UNCHANGED << config, act, reqs, drops, outcome, crashed >>
    /\ UNCHANGED << accepted, call, rateVars, loggerVars >>

\* The timer case with the timer reset only after a flush.
AggTimerResetsOnlyAfterFlush ==
    /\ Alive
    /\ agg.pc = "select"
    /\ agg.timerC
    /\ IF Len(batch) > 0
       THEN /\ agg' = [agg EXCEPT !.pc = "flush", !.kind = "timer", !.timerC = FALSE]
            /\ posts' = Append(posts, batch)
            /\ clock' = ClockAtFlush
       ELSE /\ agg' = [agg EXCEPT !.timerC = FALSE]
            /\ clock' = clock
            /\ posts' = posts
    /\ UNCHANGED << config, act, logsChannel, batch, reqs, drops, outcome, crashed >>
    /\ UNCHANGED << accepted, call, rateVars, loggerVars >>

(* batchProcessor, case <-flushTimer.C, up to the call of flushLogs; with  *)
(* an empty batch the case is over at once and the timer is reset.         *)
AggTimer ==
    /\ Alive
    /\ agg.pc = "select"
    /\ agg.timerC
    /\ IF Len(batch) > 0
       THEN /\ agg' = [agg EXCEPT !.pc = "flush", !.kind = "timer", !.timerC = FALSE]
            /\ posts' = Append(posts, batch)
            /\ clock' = ClockAtFlush
       ELSE /\ agg' = [agg EXCEPT !.timerC = FALSE, !.timerLeft = act.flushInterval]
            /\ clock' = [clock EXCEPT !.sinceArm = 0]
            /\ posts' = posts
    /\ UNCHANGED << config, act, logsChannel, batch, reqs, drops, outcome, crashed >>
    /\ UNCHANGED << accepted, call, rateVars, loggerVars >>

\* The return from flushLogs with the timer re-armed after every flush.
AfterFlushAlwaysRearms ==
    /\ batch' = << >>
    /\ agg' = [agg EXCEPT !.pc = "select", !.timerLeft = act.flushInterval,
                          !.timerC = FALSE]
    /\ clock' = [clock EXCEPT !.sinceArm = 0]
    /\ UNCHANGED << reqs, crashed >>

\* The return from flushLogs with the batch kept when the delivery failed.
AfterFlushKeepsBatch ==
    /\ batch' = IF outcome' = "200" THEN << >> ELSE batch
    /\ IF agg.kind = "timer"
       THEN /\ agg' = [agg EXCEPT !.pc = "select", !.timerLeft = act.flushInterval]
            /\ clock' = [clock EXCEPT !.sinceArm = 0]
       ELSE /\ agg' = [agg EXCEPT !.pc = "select"]
            /\ clock' = clock
    /\ UNCHANGED << reqs, crashed >>

\* The aggregator once flushLogs has returned: batch = nil, and the timer case resets the timer.
AfterFlush ==
    /\ batch' = << >>
    /\ IF agg.kind = "timer"
       THEN /\ agg' = [agg EXCEPT !.pc = "select", !.timerLeft = act.flushInterval]
            /\ clock' = [clock EXCEPT !.sinceArm = 0]
       ELSE /\ agg' = [agg EXCEPT !.pc = "select"]
            /\ clock' = clock
    /\ UNCHANGED << reqs, crashed >>

\* An unrecovered panic in a goroutine ends the process and every task in it.
Panic ==
    /\ crashed' = TRUE
    /\ agg' = [agg EXCEPT !.pc = "dead"]
    /\ reqs' = [r \in Requests |->
                  IF reqs[r].pc \in {"enqueue", "forward"}
                  THEN [reqs[r] EXCEPT !.pc = "killed"] ELSE reqs[r]]
    /\ UNCHANGED << batch, clock >>

(* flushLogs(batch) from http.NewRequest on, and the statement after it.   *)
(* client.Do returns a nil response with a transport error or a timeout,   *)
(* and "defer httpRes.Body.Close()" is reached before err is looked at.    *)
FlushReturn(o) ==
    /\ Alive
    /\ agg.pc = "flush"
    /\ IF ~ParsesAsURL(act.remoteAddress)
       THEN /\ outcome' = "newRequestError"
            /\ AfterFlush
       ELSE /\ outcome' = o
            /\ IF o \in {"transportError", "timeout"} THEN Panic ELSE AfterFlush
    /\ UNCHANGED << config, act, logsChannel, drops, posts >>
    /\ UNCHANGED << accepted, call, rateVars, loggerVars >>

\* One unit of time passes.
Tick ==
    /\ Alive
    /\ agg' = IF agg.timerLeft > 0
              THEN [agg EXCEPT !.timerLeft = @ - 1, !.timerC = (agg.timerLeft = 1)]
              ELSE agg
    /\ clock' = [clock EXCEPT !.sinceFlush = Min(@ + 1, act.flushInterval),
                              !.sinceArm = Min(@ + 1, act.flushInterval)]
    /\ UNCHANGED << config, act, logsChannel, batch, reqs, drops, posts, outcome, crashed >>
    /\ UNCHANGED << accepted, call, rateVars, loggerVars >>

NoCall == [op |-> "none"]

Init ==
    /\ config \in Configs
    /\ act = NotBuilt
    /\ logsChannel = << >>
    /\ batch = << >>
    /\ agg = AggOff
    /\ reqs = [r \in Requests |-> IdleRequest]
    /\ drops = 0
    /\ posts = << >>
    /\ accepted = << >>
    /\ clock = [sinceFlush |-> 0, sinceArm |-> 0, gap |-> 0, armGap |-> 0]
    /\ outcome = "none"
    /\ crashed = FALSE
    /\ call = NoCall
    /\ userUsageLimit = << >>
    /\ crossover = << >>
    /\ rl = << >>
    /\ ticker = << >>
    /\ bufferPool = {}
    /\ buffers = << >>
    /\ lg = << >>

Next ==
    \/ New
    \/ \E r \in Requests : \E in \in RequestInputs(r) : ServeRead(r, in)
    \/ \E r \in Requests : Enqueue(r)
    \/ \E r \in Requests : Forward(r)
    \/ AggReceive
    \/ AggTimer
    \/ \E o \in FlushOutcomes : FlushReturn(o)
    \/ Tick

Spec == Init /\ [][Next]_vars

(* The pipeline under the scheduling the runtime gives: time passes while  *)
(* the timer runs, a call of flushLogs ends (the client has a timeout), and *)
(* a case of the select that is ready again and again is taken (the select  *)
(* picks among its ready cases at random).                                  *)
Fairness ==
    /\ WF_vars(Tick)
    /\ WF_vars(\E o \in FlushOutcomes : FlushReturn(o))
    /\ SF_vars(AggReceive)
    /\ SF_vars(AggTimer)

SpecLive == Init /\ [][Next]_vars /\ Fairness

-----------------------------------------------------------------------------
(* Properties of the telemetry pipeline (specification Spec).              *)

RECURSIVE Flatten(_)
Flatten(batches) ==
    IF batches = << >> THEN << >> ELSE batches[1] \o Flatten(Tail(batches))

Range(seq) == {seq[i] : i \in 1..Len(seq)}
ReadOK(r) == reqs[r].err \in {"nil", "EOF"}
FlushStarts == Len(posts') = Len(posts) + 1
FlushEnds == agg.pc = "flush" /\ agg'.pc = "select"

\* C1, first part: the queue never holds more than BufferSize entries.
C1_QueueBounded == act.state = "running" => Len(logsChannel) <= act.cap

\* C1, second part: a request task at its enqueue can always take its step,
\* whatever the queue and the aggregator are doing.
C1_EnqueueEnabled == \A r \in Requests : reqs[r].pc = "enqueue" => ENABLED Enqueue(r)

\* C1, third part: the enqueue step of a task takes it to the forwarding of the
\* request; on a full queue the queue is unchanged and one drop is logged, otherwise
\* the entry is appended and nothing is logged.
C1_EnqueueStep ==
    \A r \in Requests :
        (reqs[r].pc = "enqueue" /\ reqs'[r].pc \notin {"enqueue", "killed"}) =>
            /\ reqs'[r].pc = "forward"
            /\ IF Len(logsChannel) >= act.cap
               THEN logsChannel' = logsChannel /\ drops' = drops + 1
               ELSE logsChannel' = Append(logsChannel, reqs[r].entry[1]) /\ drops' = drops

\* C1: the enqueue in Activity.ServeHTTP never blocks the request task: it is always
\* enabled, completes in one step, drops and logs on a full queue, leaves the queue
\* within BufferSize, and the task goes on to forward the request.
C1_EnqueueNeverBlocks ==
    [](C1_QueueBounded /\ C1_EnqueueEnabled) /\ [][C1_EnqueueStep]_vars

\* C1 witness: an entry was dropped on a full queue while the aggregator is inside
\* a flush, and the task that dropped it is about to forward its request.
C1_Witness ==
    /\ drops > 0
    /\ agg.pc = "flush"
    /\ Len(logsChannel) = act.cap
    /\ \E r \in Requests : reqs[r].pc = "forward" /\ reqs[r].entry[1] \notin Range(logsChannel)

\* C2: every request whose body read succeeded is forwarded downstream exactly once,
\* whatever happens to the queue, the aggregator or a delivery; only a request whose
\* body read failed is not forwarded.
C2_ForwardedExactlyOnce ==
    \A r \in Requests :
        /\ reqs[r].forwarded <= 1
        /\ reqs[r].pc \in {"done", "killed"} =>
               reqs[r].forwarded = (IF ReadOK(r) THEN 1 ELSE 0)

\* C3, trigger: a call of flushLogs starts exactly when a dequeued entry brings the
\* batch to BatchSize or the flush timer's expiry is taken with a non-empty batch.
C3_FlushExactlyWhen ==
    FlushStarts <=>
        \/ /\ agg.pc = "select" /\ batch' # batch /\ Len(batch') >= act.batchSize
        \/ /\ agg.pc = "select" /\ agg.timerC /\ ~agg'.timerC /\ batch # << >>

\* C3 as stated: every flush, size-triggered or timer-triggered, resets the batch and
\* re-arms the timer to a full FlushInterval.
C3_EveryFlushResetsTimer ==
    FlushEnds =>
        batch' = << >> /\ agg'.timerLeft = act.flushInterval /\ ~agg'.timerC

\* C3 as stated: no timer-triggered flush starts less than FlushInterval after the
\* previous flush.
C3_TimerFlushAfterFlush ==
    (agg.pc = "flush" /\ agg.kind = "timer" /\ Len(posts) >= 2) =>
        clock.gap >= act.flushInterval

\* C3 (original statement): flush exactly on size or timer, every flush resets batch
\* and timer, and no timer-triggered flush comes less than FlushInterval after the
\* previous flush.
C3_Original ==
    /\ [][C3_FlushExactlyWhen]_vars
    /\ [][C3_EveryFlushResetsTimer]_vars
    /\ []C3_TimerFlushAfterFlush

\* C3, what holds of a flush that returns: it resets the batch; a timer-triggered one
\* re-arms the timer to a full FlushInterval, a size-triggered one leaves the timer as
\* it is.
C3_FlushResets ==
    FlushEnds =>
        /\ batch' = << >>
        /\ IF agg.kind = "timer"
           THEN agg'.timerLeft = act.flushInterval /\ ~agg'.timerC
           ELSE agg'.timerLeft = agg.timerLeft /\ agg'.timerC = agg.timerC

\* C3, what holds: no timer-triggered flush starts less than FlushInterval after the
\* timer was last armed.
C3_TimerFlushAfterArm ==
    (agg.pc = "flush" /\ agg.kind = "timer") => clock.armGap >= act.flushInterval

\* C3, what holds: the aggregator flushes exactly when a dequeue brings the batch to
\* BatchSize or the timer's expiry is taken with a non-empty batch; a flush that
\* returns empties the batch, only a timer-triggered one re-arms the timer, and no
\* timer-triggered flush comes less than FlushInterval after the timer was armed.
C3_FlushProtocol ==
    /\ [][C3_FlushExactlyWhen]_vars
    /\ [][C3_FlushResets]_vars
    /\ []C3_TimerFlushAfterArm

\* C3, the case that fails: a size-triggered flush has returned with the timer still running, and
\* a timer-triggered flush of a later batch is under way.
C3_Witness ==
    /\ agg.pc = "flush" /\ agg.kind = "timer"
    /\ Len(posts) >= 2
    /\ Len(posts[Len(posts) - 1]) >= act.batchSize
    /\ clock.gap < act.flushInterval

\* C4: the batch never holds more than the batch size New stored, and neither does
\* any batch handed to flushLogs.
C4_BatchBounded ==
    act.state = "running" =>
        /\ Len(batch) <= act.batchSize
        /\ \A i \in 1..Len(posts) : Len(posts[i]) <= act.batchSize

\* C5: after a failed delivery (transport error, timeout or non-200) the aggregator
\* is still running and no request task was terminated.
C5_FailedDeliveryNotFatal ==
    outcome \in {"503", "transportError", "timeout"} =>
        /\ ~crashed
        /\ agg.pc \in {"select", "flush"}
        /\ \A r \in Requests : reqs[r].pc # "killed"

\* C6, first part: no entry was handed to flushLogs twice, and no entry that was
\* handed to it is back in the queue or in the batch being accumulated.
C6_AtMostOnce ==
    LET sent == Flatten(posts)
    IN  /\ \A i, j \in 1..Len(sent) : i # j => sent[i] # sent[j]
        /\ Range(logsChannel) \cap Range(sent) = {}
        /\ agg.pc = "select" => Range(batch) \cap Range(sent) = {}

\* C6, second part for a call of flushLogs that returns: the batch is empty then.
C6_BatchCleared == FlushEnds => batch' = << >>

\* C6, what holds: no entry is retried, requeued or sent again, and after a call of
\* flushLogs that returns the batch is empty.
C6_FlushedOnce == []C6_AtMostOnce /\ [][C6_BatchCleared]_vars

\* C6, second part: when a flush attempt is over, however the delivery went (200,
\* non-200, transport error, timeout), the batch is empty.
C6_AttemptClearsBatch == (agg.pc = "flush" /\ agg'.pc # "flush") => batch' = << >>

\* C6: after any flush attempt, delivered or not, the batch is empty and none of its
\* entries is retried, requeued or sent again: an entry is in at most one POST.
C6_AfterAnyAttempt == []C6_AtMostOnce /\ [][C6_AttemptClearsBatch]_vars

\* C6, a case that holds: a delivery failed with a non-200 answer, its batch was dropped, and a
\* later batch is being flushed.
C6_Witness ==
    /\ outcome = "503"
    /\ agg.pc = "flush"
    /\ Len(posts) >= 2

\* C8: a request whose body read failed with an error other than end-of-stream is
\* answered 500, is over without being forwarded, and left no log entry in the
\* queue, the batch or a flush; and 500 is answered to no other request.
C8_ReadErrorIs500 ==
    \A r \in Requests :
        /\ reqs[r].err = "readError" =>
              /\ reqs[r].pc = "done"
              /\ reqs[r].status = StatusInternalServerError
              /\ reqs[r].forwarded = 0
              /\ reqs[r].entry = << >>
              /\ \A e \in Range(logsChannel) \cup Range(batch) \cup Range(Flatten(posts)) :
                     e.src # r
        /\ reqs[r].status = StatusInternalServerError => reqs[r].err = "readError"

\* C8 witness: a request was answered 500 while another one was accepted into the
\* queue.
C8_Witness ==
    /\ \E r \in Requests : reqs[r].status = StatusInternalServerError
    /\ logsChannel # << >>

-----------------------------------------------------------------------------
(* Body interception as a function of the request body (SpecBody).         *)

PipelineOff ==
    /\ act = NotBuilt
    /\ logsChannel = << >>
    /\ batch = << >>
    /\ agg = AggOff
    /\ reqs = [r \in Requests |-> IdleRequest]
    /\ drops = 0
    /\ posts = << >>
    /\ accepted = << >>
    /\ clock = [sinceFlush |-> 0, sinceArm |-> 0, gap |-> 0, armGap |-> 0]
    /\ outcome = "none"
    /\ crashed = FALSE

RateLimitOff ==
    /\ userUsageLimit = << >>
    /\ crossover = << >>
    /\ rl = << >>
    /\ ticker = << >>

LoggerOff ==
    /\ bufferPool = {}
    /\ buffers = << >>
    /\ lg = << >>

\* Run lengths around the ceiling, and the positions a read may fail at.
RunLengths == {1, MaxRequestBodySize - 1, MaxRequestBodySize, MaxRequestBodySize + 1}
RunSet == [b : {"a", "b"}, n : RunLengths]
FailPoints == {NoFail, 0, 1, MaxRequestBodySize, MaxRequestBodySize + 1}

RECURSIVE RunSeqs(_)
RunSeqs(k) ==
    IF k = 0 THEN {<< >>}
    ELSE LET shorter == RunSeqs(k - 1)
         IN  shorter \cup {Append(s, x) : s \in {t \in shorter : Len(t) = k - 1}, x \in RunSet}

BodyStreams == [data : RunSeqs(MaxRuns), failAt : FailPoints]

InitBody ==
    /\ config = MkConfig(IdPattern, Collector, "key", 0, 0, 0)
    /\ PipelineOff
    /\ RateLimitOff
    /\ LoggerOff
    /\ call \in [op : {"request"}, src : BodyStreams]

\* ServeHTTP from the pooled buffer to the two bodies.
CallIntercept ==
    /\ call.op = "request"
    /\ call' = [op |-> "intercepted", src |-> call.src, res |-> Intercept(call.src)]
    /\ UNCHANGED << pipeVars, rateVars, loggerVars >>

\* The downstream handler reads the body it was given to its end.
ReadDownstream ==
    /\ call.op = "intercepted"
    /\ call.res.ok
    /\ call' = [call EXCEPT !.op = "served",
                            !.res.body.pos = BodyLen(call.res.body.data)]
    /\ UNCHANGED << pipeVars, rateVars, loggerVars >>

NextBody == CallIntercept \/ ReadDownstream

SpecBody == InitBody /\ [][NextBody]_vars

\* The bytes of reader content got are the first want bytes of body, no more.
IsPrefixOfLength(got, body, want) ==
    /\ BodyLen(got) = want
    /\ \A i \in RunStarts(got, 1) \cup RunStarts(body, 1) :
           i <= want => ByteAt(got, i) = ByteAt(body, i)

\* C7: when the read succeeds, the downstream body and the telemetry copy both hold
\* the first min(len(B), MaxRequestBodySize) bytes of the body B, each to be read
\* from its first byte: all of B up to the ceiling, exactly the ceiling beyond it.
C7_BothCopiesArePrefix ==
    (call.op = "intercepted" /\ call.res.ok) =>
        LET want == Min(BodyLen(call.src.data), MaxRequestBodySize)
        IN  /\ IsPrefixOfLength(call.res.body.data, call.src.data, want)
            /\ IsPrefixOfLength(call.res.clone.data, call.src.data, want)
            /\ call.res.body.pos = 0 /\ call.res.clone.pos = 0

\* C7 witness: a body longer than the ceiling, in two runs, was cut to the ceiling.
C7_Witness ==
    /\ call.op = "intercepted" /\ call.res.ok
    /\ Len(call.src.data) = 2
    /\ BodyLen(call.src.data) > MaxRequestBodySize
    /\ BodyLen(call.res.body.data) = MaxRequestBodySize
    /\ BodyLen(call.res.clone.data) = MaxRequestBodySize

-----------------------------------------------------------------------------
(* requestCount as a function of the request (SpecCount).                  *)

JsonAlphabet == {"[", "]", ",", "1", "{", "}", " "}
ContentTypes == {"application/json", "text/plain", "application/json; charset=utf-8", ""}

RECURSIVE Strings(_)
Strings(k) ==
    IF k = 0 THEN {<< >>}
    ELSE LET shorter == Strings(k - 1)
         IN  shorter \cup
             {Append(s, c) : s \in {t \in shorter : Len(t) = k - 1}, c \in JsonAlphabet}

\* Bodies the alphabet cannot spell.
SampleBodies ==
    {<< "n", "u", "l", "l" >>,
     << "n", "u", "l" >>,
     << " ", "n", "u", "l", "l", " " >>,
     << "[", "n", "u", "l", "l", "]" >>,
     << "\"", "a", "\"" >>,
     << "[", "\"", "a", "\"", ",", "\"", "b" >>,
     << "{", "\"", "a", "\"", ":", "1", "}" >>,
     << "[", "1", "]", "x" >>,
     << "[", "0", "1", "]" >>,
     << "[", "{", "\"", "a", "\"", ":", "1", "}", ",",
             "{", "\"", "b", "\"", ":", "2", "}", ",",
             "{", "\"", "c", "\"", ":", "3", "}", "]" >>}

CountBodies == Strings(MaxBodyLen) \cup SampleBodies

InitCount ==
    /\ config = MkConfig(IdPattern, Collector, "key", 0, 0, 0)
    /\ PipelineOff
    /\ RateLimitOff
    /\ LoggerOff
    /\ call \in [op : {"request"},
                 req : [contentType : ContentTypes,
                        body : {NewReader(ToRuns(b)) : b \in CountBodies}]]

\* requestCount(clonedRequest), later revision.
CallRequestCount ==
    /\ call.op = "request"
    /\ call' = [op |-> "counted", req |-> call.req, res |-> requestCount(call.req)]
    /\ UNCHANGED << pipeVars, rateVars, loggerVars >>

\* requestCount(clonedRequest), earlier revision.
CallRequestCountEarlier ==
    /\ call.op = "request"
    /\ call' = [op |-> "countedEarlier", req |-> call.req,
                res |-> requestCountEarlier(call.req)]
    /\ UNCHANGED << pipeVars, rateVars, loggerVars >>

NextCount == CallRequestCount \/ CallRequestCountEarlier

SpecCount == InitCount /\ [][NextCount]_vars

\* The first JSON value of the body of the request counted.
FirstValue == ParseValue(Expand(call.req.body.data), 1)
IsJson == call.req.contentType = "application/json"

\* C9 (original statement): 1 without reading the body when the Content-Type is not
\* application/json; n when the body decodes as an array of n elements; 1 whenever
\* the body does not decode as an array; never negative.
C9_Original ==
    call.op = "counted" =>
        /\ ~IsJson => call.res.count = 1 /\ call.res.body = call.req.body
        /\ (IsJson /\ FirstValue.ok /\ FirstValue.kind = "array") =>
               call.res.count = FirstValue.n
        /\ (IsJson /\ ~(FirstValue.ok /\ FirstValue.kind = "array")) => call.res.count = 1
        /\ call.res.count >= 0

\* C9 (amended): 1 without reading the body when the Content-Type is not
\* application/json; n when the body's first JSON value is an array of n elements;
\* 0 when that value is null, which decodes without an error into an empty slice;
\* 1 when the decoding fails (no value, a malformed one, or a value that is neither
\* an array nor null); never negative.
C9_CountByKind ==
    call.op = "counted" =>
        /\ ~IsJson => call.res.count = 1 /\ call.res.body = call.req.body
        /\ (IsJson /\ FirstValue.ok /\ FirstValue.kind = "array") =>
               call.res.count = FirstValue.n
        /\ (IsJson /\ FirstValue.ok /\ FirstValue.kind = "null") => call.res.count = 0
        /\ (IsJson /\ ~(FirstValue.ok /\ FirstValue.kind \in {"array", "null"})) =>
               call.res.count = 1
        /\ call.res.count >= 0

\* C9 witness: the three-object batch of the specification was counted as 3.
C9_Witness ==
    /\ call.op = "counted"
    /\ IsJson
    /\ Len(call.req.body.data) = 25
    /\ call.res.count = 3

-----------------------------------------------------------------------------
(* The rate-limit variant: RequestCrossover (SpecRate).                    *)

defaultGetRequestIdPattern == "([a-z0-9]{42})"
IdLength == 42
IdPrefixLength == 10

Repeat(c, k) == [i \in 1..k |-> c]
HexDigits == Digits \cup {"a", "b", "c", "d", "e", "f"}
AlphaNum == Digits \cup {"a", "b", "c", "d", "e", "f", "g", "p", "t", "x", "z"}

\* The path segments requests come with: a user's id, an id whose tail is not
\* hexadecimal, and a segment the pattern does not match.
IdOfUser == Repeat("e", IdPrefixLength) \o Repeat("1", 32)
IdNotHex == Repeat("e", IdPrefixLength) \o Repeat("z", 32)
NoIdSegment == << "h", "e", "a", "l", "t", "h" >>
RateSegments == {IdOfUser, IdNotHex, NoIdSegment}
RatePaths == {<< s >> : s \in RateSegments}

\* regexp.MustCompile(pattern) and the segments the compiled pattern matches.
RatePatternMatches(p) ==
    IF p = defaultGetRequestIdPattern
    THEN {g \in RateSegments : Len(g) = IdLength /\ \A i \in 1..Len(g) : g[i] \in AlphaNum}
    ELSE {}

(* requestKey(pattern, path) of the rate-limit variant: compiles the        *)
(* pattern on every call (a panic when it does not compile), then the       *)
(* leftmost match or the empty string.                                      *)
requestKeyRate(pattern, path) ==
    IF ~Compiles(pattern) THEN [panic |-> TRUE, id |-> << >>]
    ELSE [panic |-> FALSE, id |-> LET m == FirstMatch(RatePatternMatches(pattern), path)
                                  IN  IF m = "" THEN << >> ELSE m]

(* uuid.Parse(s) and UUID.String(): 32 hexadecimal digits, or 36 characters *)
(* with dashes at 9, 14, 19 and 24; the canonical text has the dashes.      *)
(* (The urn:uuid: and {braced} forms have other lengths than the segments   *)
(* above and are errors here.)                                              *)
DashAt == {9, 14, 19, 24}
UUIDParse(t) ==
    IF Len(t) = 32 /\ \A i \in 1..32 : t[i] \in HexDigits
    THEN [err |-> FALSE,
          text |-> SubSeq(t, 1, 8) \o << "-" >> \o SubSeq(t, 9, 12) \o << "-" >> \o
                   SubSeq(t, 13, 16) \o << "-" >> \o SubSeq(t, 17, 20) \o << "-" >> \o
                   SubSeq(t, 21, 32)]
    ELSE IF Len(t) = 36 /\ \A i \in 1..36 : IF i \in DashAt THEN t[i] = "-"
                                                   ELSE t[i] \in HexDigits
    THEN [err |-> FALSE, text |-> t]
    ELSE [err |-> TRUE, text |-> << >>]

UserIds == {UUIDParse(SubSeq(g, IdPrefixLength + 1, Len(g))).text : g \in {IdOfUser}}

\* A key the map does not hold reads as the zero limitUsage with ok = false.
NoRecord == [ok |-> FALSE, planLimit |-> 0, usage |-> 0]

PlanLimits == {0, 1}
\* What the subscription service answers: a failure, or a request_limit.
PlanResponses ==
    {[kind |-> k, limit |-> 0] : k \in {"transportError", "503", "badJson"}}
    \cup {[kind |-> "200", limit |-> n] : n \in PlanLimits}

RateConfigs ==
    {[RequestIdPattern |-> defaultGetRequestIdPattern, RateLimitStoreURL |-> "http://store",
      RateLimitPlanLimitURL |-> "http://plan/:userId", APIKey |-> "key"],
     [RequestIdPattern |-> BadPattern, RateLimitStoreURL |-> "http://store",
      RateLimitPlanLimitURL |-> "http://plan/:userId", APIKey |-> "key"],
     [RequestIdPattern |-> "", RateLimitStoreURL |-> "http://store",
      RateLimitPlanLimitURL |-> "http://plan/:userId", APIKey |-> "key"],
     [RequestIdPattern |-> defaultGetRequestIdPattern, RateLimitStoreURL |-> "",
      RateLimitPlanLimitURL |-> "http://plan/:userId", APIKey |-> "key"],
     [RequestIdPattern |-> defaultGetRequestIdPattern, RateLimitStoreURL |-> "http://store",
      RateLimitPlanLimitURL |-> "", APIKey |-> "key"],
     [RequestIdPattern |-> defaultGetRequestIdPattern, RateLimitStoreURL |-> "http://store",
      RateLimitPlanLimitURL |-> "http://plan/:userId", APIKey |-> ""]}

NewCrossover(c) ==
    IF c.APIKey = "" THEN [state |-> "error", err |-> "APIKey can't be empty"]
    ELSE IF c.RequestIdPattern = ""
         THEN [state |-> "error", err |-> "GetRequestIdPattern can't be empty"]
    ELSE IF c.RateLimitStoreURL = ""
         THEN [state |-> "error", err |-> "RateLimitStoreURL can't be empty"]
    ELSE IF c.RateLimitPlanLimitURL = ""
         THEN [state |-> "error", err |-> "RateLimitPlanLimitURL can't be empty"]
    ELSE [state |-> "running", err |-> "", requestIdPattern |-> c.RequestIdPattern]

RateRequests == 1..NumRateRequests
NoLocal == [ok |-> FALSE, planLimit |-> 0, usage |-> 0]
\* path is req.URL.Path; v is ServeHTTP's v, ok; fetched is how its call of RateLimitPlan
\* went (none, ok, failed); pv and limit are RateLimitPlan's v, ok and the limit it got;
\* wrote tells that the task has stored into userUsageLimit.
IdleRateRequest == [pc |-> "idle", path |-> << >>, user |-> << >>, v |-> NoLocal,
                    pv |-> NoLocal, limit |-> 0, status |-> 0, forwarded |-> 0, stored |-> 0,
                    fetched |-> "none", wrote |-> FALSE]
TickerOff == [pc |-> "off", todo |-> {}, key |-> << >>, limit |-> 0, v |-> NoLocal]

InitRate ==
    /\ config \in RateConfigs
    /\ PipelineOff
    /\ LoggerOff
    /\ call = NoCall
    /\ userUsageLimit = [u \in UserIds |-> NoRecord]
    /\ crossover = [state |-> "none", err |-> ""]
    /\ rl = [r \in RateRequests |-> IdleRateRequest]
    /\ ticker = TickerOff

\* New of the rate-limit variant: the checks, the handler, and Ticking().
NewRate ==
    /\ crossover.state = "none"
    /\ crossover' = NewCrossover(config)
    /\ ticker' = IF crossover'.state = "running" THEN [ticker EXCEPT !.pc = "wait"]
                 ELSE ticker
    /\ UNCHANGED << userUsageLimit, rl, pipeVars, call, loggerVars >>

(* ServeHTTP down to the map lookup: the request id, requestId[10:] (a      *)
(* panic when the id is shorter), uuid.Parse (400 on an error), and         *)
(* v, ok := userUsageLimit[userId].  A panic in a handler ends that         *)
(* request only.                                                            *)
RateStart(r, path) ==
    /\ crossover.state = "running"
    /\ rl[r].pc = "idle"
    /\ \A q \in RateRequests : q < r => rl[q].pc # "idle"
    /\ LET k == requestKeyRate(crossover.requestIdPattern, path)
       IN  IF k.panic \/ Len(k.id) < IdPrefixLength
           THEN rl' = [rl EXCEPT ![r] = [@ EXCEPT !.pc = "panicked", !.path = path]]
           ELSE LET u == UUIDParse(SubSeq(k.id, IdPrefixLength + 1, Len(k.id)))
                IN  IF u.err
                    THEN rl' = [rl EXCEPT ![r] =
                                   [@ EXCEPT !.pc = "done", !.path = path,
                                             !.status = StatusBadRequest]]
                    ELSE rl' = [rl EXCEPT ![r] =
                                   [@ EXCEPT !.pc = IF userUsageLimit[u.text].ok
                                                    THEN "check" ELSE "fetch",
                                             !.path = path,
                                             !.user = u.text,
                                             !.v = userUsageLimit[u.text]]]
    /\ UNCHANGED << userUsageLimit, crossover, ticker, pipeVars, call, loggerVars >>

(* ServeHTTP, the branch of a user with a record: 429 when v.usage >        *)
(* v.planLimit, else v.usage++ and userUsageLimit[userId] = v; the request  *)
(* then goes on to fmt.Println(userUsageLimit).                             *)
RateCheck(r) ==
    /\ rl[r].pc = "check"
    /\ IF rl[r].v.usage > rl[r].v.planLimit
       THEN /\ rl' = [rl EXCEPT ![r] =
                         [@ EXCEPT !.pc = "done", !.status = StatusTooManyRequests]]
            /\ UNCHANGED userUsageLimit
       ELSE /\ userUsageLimit' =
                   [userUsageLimit EXCEPT ![rl[r].user] =
                       [rl[r].v EXCEPT !.usage = @ + 1]]
            /\ rl' = [rl EXCEPT ![r] = [@ EXCEPT !.pc = "print", !.wrote = TRUE]]
    /\ UNCHANGED << crossover, ticker, pipeVars, call, loggerVars >>

(* RateLimitPlan(userId) called by ServeHTTP for a user without a record:   *)
(* the GET and the decoding of its answer.  Every failure returns without   *)
(* touching the map, and ServeHTTP goes on to fmt.Println.                  *)
RateFetch(r, resp) ==
    /\ rl[r].pc = "fetch"
    /\ rl' = IF resp.kind = "200"
             THEN [rl EXCEPT ![r] = [@ EXCEPT !.pc = "planRead", !.limit = resp.limit,
                                              !.fetched = "ok"]]
             ELSE [rl EXCEPT ![r] = [@ EXCEPT !.pc = "print", !.fetched = "failed"]]
    /\ UNCHANGED << userUsageLimit, crossover, ticker, pipeVars, call, loggerVars >>

\* RateLimitPlan: v, ok := userUsageLimit[userId]
RatePlanRead(r) ==
    /\ rl[r].pc = "planRead"
    /\ rl' = [rl EXCEPT ![r] = [@ EXCEPT !.pc = "planWrite",
                                         !.pv = userUsageLimit[rl[r].user]]]
    /\ UNCHANGED << userUsageLimit, crossover, ticker, pipeVars, call, loggerVars >>

\* The record of RateLimitPlan with the request that fetched it counted in a new one.
PlanRecordCountsRequest(v, limit) ==
    IF ~v.ok THEN [ok |-> TRUE, planLimit |-> limit, usage |-> 1]
    ELSE [v EXCEPT !.planLimit = limit]

\* The record RateLimitPlan stores: a new one with usage 0, or v with the new limit.
PlanRecord(v, limit) ==
    IF ~v.ok THEN [ok |-> TRUE, planLimit |-> limit, usage |-> 0]
    ELSE [v EXCEPT !.planLimit = limit]

\* RateLimitPlan: the store into userUsageLimit; it returns to ServeHTTP, which goes
\* on to fmt.Println(userUsageLimit).
RatePlanWrite(r) ==
    /\ rl[r].pc = "planWrite"
    /\ userUsageLimit' = [userUsageLimit EXCEPT ![rl[r].user] =
                              PlanRecord(rl[r].pv, rl[r].limit)]
    /\ rl' = [rl EXCEPT ![r] = [@ EXCEPT !.pc = "print", !.wrote = TRUE]]
    /\ UNCHANGED << crossover, ticker, pipeVars, call, loggerVars >>

\* ServeHTTP: fmt.Println(userUsageLimit), which walks the map.
RatePrint(r) ==
    /\ rl[r].pc = "print"
    /\ rl' = [rl EXCEPT ![r] = [@ EXCEPT !.pc = "report"]]
    /\ UNCHANGED << userUsageLimit, crossover, ticker, pipeVars, call, loggerVars >>

\* ServeHTTP: go a.RateLimitStore(requestId), the usage report of the request.
RateReport(r) ==
    /\ rl[r].pc = "report"
    /\ rl' = [rl EXCEPT ![r] = [@ EXCEPT !.pc = "forward", !.stored = @ + 1]]
    /\ UNCHANGED << userUsageLimit, crossover, ticker, pipeVars, call, loggerVars >>

\* ServeHTTP, the end: the X-UUId header and a.next.ServeHTTP(rw, req).
RateForward(r) ==
    /\ rl[r].pc = "forward"
    /\ rl' = [rl EXCEPT ![r] = [@ EXCEPT !.pc = "done", !.forwarded = @ + 1]]
    /\ UNCHANGED << userUsageLimit, crossover, ticker, pipeVars, call, loggerVars >>

\* Ticking: <-ticker.C, and the range over the keys of userUsageLimit begins.
TickerFire ==
    /\ ticker.pc = "wait"
    /\ ticker' = [ticker EXCEPT !.pc = "range",
                                !.todo = {u \in UserIds : userUsageLimit[u].ok}]
    /\ UNCHANGED << userUsageLimit, crossover, rl, pipeVars, call, loggerVars >>

\* Ticking: the next key of the range, or its end.
TickerNext ==
    /\ ticker.pc = "range"
    /\ IF ticker.todo = {}
       THEN ticker' = [ticker EXCEPT !.pc = "wait"]
       ELSE \E k \in ticker.todo :
                ticker' = [ticker EXCEPT !.pc = "fetch", !.key = k, !.todo = @ \ {k}]
    /\ UNCHANGED << userUsageLimit, crossover, rl, pipeVars, call, loggerVars >>

\* Ticking: a.RateLimitPlan(k), the GET and the decoding of its answer.
TickerFetch(resp) ==
    /\ ticker.pc = "fetch"
    /\ ticker' = IF resp.kind = "200"
                 THEN [ticker EXCEPT !.pc = "planRead", !.limit = resp.limit]
                 ELSE [ticker EXCEPT !.pc = "range"]
    /\ UNCHANGED << userUsageLimit, crossover, rl, pipeVars, call, loggerVars >>

\* Ticking, in RateLimitPlan: v, ok := userUsageLimit[userId]
TickerPlanRead ==
    /\ ticker.pc = "planRead"
    /\ ticker' = [ticker EXCEPT !.pc = "planWrite", !.v = userUsageLimit[ticker.key]]
    /\ UNCHANGED << userUsageLimit, crossover, rl, pipeVars, call, loggerVars >>

\* Ticking, in RateLimitPlan: the store into userUsageLimit.
TickerPlanWrite ==
    /\ ticker.pc = "planWrite"
    /\ userUsageLimit' = [userUsageLimit EXCEPT ![ticker.key] =
                              PlanRecord(ticker.v, ticker.limit)]
    /\ ticker' = [ticker EXCEPT !.pc = "range", !.v = NoLocal, !.limit = 0]
    /\ UNCHANGED << crossover, rl, pipeVars, call, loggerVars >>

(* userUsageLimit is a plain map that the request tasks and the refresh     *)
(* task use without a lock.  When a store into it (ServeHTTP's              *)
(* userUsageLimit[userId] = v, RateLimitPlan's two stores) runs at the same *)
(* time as another task's access, the runtime may end the process with a    *)
(* fatal error that cannot be recovered.  A task is identified by its       *)
(* request number, the refresh task by TickerTask.                          *)
TickerTask == 0

\* The tasks whose next step stores into the map.
MapWriters ==
    {r \in RateRequests : \/ rl[r].pc = "planWrite"
                          \/ rl[r].pc = "check" /\ rl[r].v.usage <= rl[r].v.planLimit}
    \cup (IF ticker.pc = "planWrite" THEN {TickerTask} ELSE {})

\* The tasks whose next step looks a key up: RateLimitPlan's lookup, and ServeHTTP's
\* in the request that arrives next.
MapReaders ==
    {r \in RateRequests : \/ rl[r].pc = "planRead"
                          \/ /\ rl[r].pc = "idle"
                             /\ \A q \in RateRequests : q < r => rl[q].pc # "idle"}
    \cup (IF ticker.pc = "planRead" THEN {TickerTask} ELSE {})

\* The tasks whose next step walks the map: Ticking's range, and fmt.Println of the
\* map in a request that has passed the admission branch.
MapIterators ==
    {r \in RateRequests : rl[r].pc = "print"}
    \cup (IF ticker.pc \in {"wait", "range"} THEN {TickerTask} ELSE {})

\* The fatal errors the runtime can raise in this state.
MapFaults ==
    {"fatal error: concurrent map writes" :
         w \in {x \in MapWriters : \E t \in MapWriters : t # x}}
    \cup {"fatal error: concurrent map read and map write" :
              w \in {x \in MapWriters : \E t \in MapReaders : t # x}}
    \cup {"fatal error: concurrent map iteration and map write" :
              w \in {x \in MapWriters : \E t \in MapIterators : t # x}}

\* The process ends on a fatal error: every request in flight ends unanswered and
\* the refresh task with it; nothing is served afterwards.
MapFatal ==
    /\ crossover.state = "running"
    /\ \E e \in MapFaults :
           crossover' = [crossover EXCEPT !.state = "fatal", !.err = e]
    /\ rl' = [r \in RateRequests |->
                 IF rl[r].pc \in {"check", "fetch", "planRead", "planWrite", "print",
                                  "report", "forward"}
                 THEN [rl[r] EXCEPT !.pc = "killed"]
                 ELSE rl[r]]
    /\ ticker' = [ticker EXCEPT !.pc = "dead"]
    /\ UNCHANGED << userUsageLimit, pipeVars, call, loggerVars >>

NextRate ==
    \/ NewRate
    \/ \E r \in RateRequests : \E path \in RatePaths : RateStart(r, path)
    \/ \E r \in RateRequests : RateCheck(r)
    \/ \E r \in RateRequests : \E resp \in PlanResponses : RateFetch(r, resp)
    \/ \E r \in RateRequests : RatePlanRead(r)
    \/ \E r \in RateRequests : RatePlanWrite(r)
    \/ \E r \in RateRequests : RatePrint(r)
    \/ \E r \in RateRequests : RateReport(r)
    \/ \E r \in RateRequests : RateForward(r)
    \/ TickerFire
    \/ TickerNext
    \/ \E resp \in PlanResponses : TickerFetch(resp)
    \/ TickerPlanRead
    \/ TickerPlanWrite
    \/ MapFatal

SpecRate == InitRate /\ [][NextRate]_vars

\* C10, the half the code keeps: a request that found usage one below planLimit is
\* admitted and forwarded.
C10_AdmitBelowLimit ==
    \A r \in RateRequests :
        (rl[r].pc = "done" /\ rl[r].v.ok /\ rl[r].v.usage + 1 = rl[r].v.planLimit) =>
            rl[r].status # StatusTooManyRequests /\ rl[r].forwarded = 1

\* C10: a request that found its user's record with usage equal to planLimit is
\* answered 429 and not forwarded; one that found usage one below planLimit is
\* admitted and forwarded, having stored a usage equal to that planLimit.
C10_RejectAtLimit ==
    \A r \in RateRequests :
        (rl[r].pc = "done" /\ rl[r].v.ok) =>
            /\ rl[r].v.usage = rl[r].v.planLimit =>
                   rl[r].status = StatusTooManyRequests /\ rl[r].forwarded = 0
            /\ rl[r].v.usage + 1 = rl[r].v.planLimit =>
                   rl[r].status # StatusTooManyRequests /\ rl[r].forwarded = 1

-----------------------------------------------------------------------------
(* The fire-and-forget variant: RequestLogger (SpecLogger).  ServeHTTP      *)
(* borrows a buffer from bufferPool, copies the body into it, hands a       *)
(* reader over the buffer's bytes to "go a.log(clonedRequest)" and returns  *)
(* the buffer when it returns; log borrows a buffer of its own to encode    *)
(* the entry.  A reader made by bytes.NewReader(buf.Bytes()) is a view of   *)
(* the first n bytes of the buffer's backing array, not a copy of them.     *)

NumLogRequests == 2  \* request tasks of the fire-and-forget variant

LogRequests == 1..NumLogRequests

DigitChar(k) == IF k = 0 THEN "0" ELSE << "1", "2", "3", "4", "5", "6", "7", "8", "9" >>[k]

\* Request r brings a JSON array of r elements and a path with the id of r.
RECURSIVE Elements(_)
Elements(k) == IF k = 1 THEN << "1" >> ELSE Elements(k - 1) \o << ",", "1" >>
LogBody(r) == << "[" >> \o Elements(r) \o << "]" >>
\* The longest body a request brings.
MaxLogBody == Len(LogBody(NumLogRequests))
LogId(r) == << "i", "d", DigitChar(r) >>
LogPattern == {LogId(k) : k \in 1..9}
LogInputs(r) ==
    {[path |-> << << "v", "1" >>, LogId(r) >>, contentType |-> "application/json",
      stream |-> [data |-> ToRuns(LogBody(r)), failAt |-> f]] : f \in {NoFail, 1}}

\* json.NewEncoder(buffer).Encode(loggingRequestDto{RequestId, Count})
EncodeDto(id, count) ==
    << "{", "\"", "r", "e", "q", "u", "e", "s", "t", "_", "i", "d", "\"", ":", "\"" >>
    \o id \o
    << "\"", ",", "\"", "c", "o", "u", "n", "t", "\"", ":", DigitChar(count), "}", "\n" >>

\* buf.Reset() and a write of data: the bytes go to the front of the backing array,
\* what the array held beyond them stays.
WriteBuf(arr, data) == data \o SubSeq(arr, Len(data) + 1, Len(arr))

\* What a reader over the first n bytes of buffer b yields now.
ReadView(b, n) == SubSeq(buffers[b], 1, n)

\* bufferPool.Get(): a buffer idle in the pool, or a new one (New).
GetChoices == bufferPool \cup {Len(buffers) + 1}
BuffersAfterWrite(b, data) ==
    IF b > Len(buffers) THEN Append(buffers, data)
    ELSE [buffers EXCEPT ![b] = WriteBuf(@, data)]

IdleLogRequest ==
    [srv |-> "idle", log |-> "none", status |-> 0, forwarded |-> 0,
     buf |-> 0, stream |-> [data |-> << >>, failAt |-> NoFail], copied |-> 0,
     n |-> 0, body |-> << >>, down |-> << >>,
     id |-> << >>, seen |-> << >>, count |-> 0, late |-> FALSE, ebuf |-> 0, sent |-> << >>,
     res |-> "none"]

InitLogger ==
    /\ config = MkConfig(IdPattern, Collector, "key", 0, 0, 0)
    /\ PipelineOff
    /\ RateLimitOff
    /\ call = NoCall
    /\ bufferPool = {}
    /\ buffers = << >>
    /\ lg = [r \in LogRequests |-> IdleLogRequest]

(* RequestLogger.ServeHTTP, its first statements: bufferPool.Get(),         *)
(* buf.Reset() and the deferred Put.  The buffer leaves the pool; Reset     *)
(* empties the buffer and leaves its backing array as it is.                *)
LoggerGet(r, in) ==
    /\ lg[r].srv = "idle"
    /\ \A q \in LogRequests : q < r => lg[q].srv # "idle"
    /\ \E b \in GetChoices :
         /\ bufferPool' = bufferPool \ {b}
         /\ buffers' = IF b > Len(buffers) THEN Append(buffers, << >>) ELSE buffers
         /\ lg' = [lg EXCEPT ![r] =
                     [@ EXCEPT !.srv = "copy", !.buf = b, !.stream = in.stream,
                               !.id = requestKey(LogPattern, in.path)]]
    /\ UNCHANGED << pipeVars, rateVars, call >>

(* io.CopyN(buf, req.Body, MaxRequestBodySize) while it runs: one Read of   *)
(* the body brought k more bytes, which are written behind the ones the     *)
(* buffer holds.  The call blocks on the body between two Reads, with the   *)
(* buffer out of the pool and written in part.                              *)
LoggerCopy(r, k) ==
    /\ lg[r].srv = "copy"
    /\ LET data == Expand(CopyN(lg[r].stream, MaxRequestBodySize).buf)
       IN  /\ lg[r].copied + k <= Len(data)
           /\ buffers' = [buffers EXCEPT ![lg[r].buf] =
                              WriteBuf(@, SubSeq(data, 1, lg[r].copied + k))]
           /\ lg' = [lg EXCEPT ![r] = [@ EXCEPT !.copied = @ + k]]
    /\ UNCHANGED << bufferPool, pipeVars, rateVars, call >>

(* io.CopyN returns, and ServeHTTP down to "go a.log(clonedRequest)": 500   *)
(* on a read error (the deferred Put returns the buffer), else the two      *)
(* readers over the buffer's bytes and the start of the log goroutine.      *)
LoggerCopied(r) ==
    /\ lg[r].srv = "copy"
    /\ LET c == CopyN(lg[r].stream, MaxRequestBodySize)
           data == Expand(c.buf)
       IN  /\ lg[r].copied = Len(data)
           /\ IF c.err # "nil" /\ c.err # "EOF"
              THEN /\ bufferPool' = bufferPool \cup {lg[r].buf}
                   /\ lg' = [lg EXCEPT ![r] =
                               [@ EXCEPT !.srv = "returned",
                                         !.status = StatusInternalServerError]]
              ELSE /\ bufferPool' = bufferPool
                   /\ lg' = [lg EXCEPT ![r] =
                               [@ EXCEPT !.srv = "forward", !.log = "count",
                                         !.n = Len(data), !.body = data]]
    /\ UNCHANGED << buffers, pipeVars, rateVars, call >>

(* a.next.ServeHTTP(rw, req): the downstream handler reads its body; then   *)
(* ServeHTTP returns and the deferred bufferPool.Put(buf) runs.             *)
LoggerForward(r) ==
    /\ lg[r].srv = "forward"
    /\ lg' = [lg EXCEPT ![r] = [@ EXCEPT !.srv = "returned", !.forwarded = @ + 1,
                                         !.down = ReadView(lg[r].buf, lg[r].n)]]
    /\ bufferPool' = bufferPool \cup {lg[r].buf}
    /\ UNCHANGED << buffers, pipeVars, rateVars, call >>

(* log: requestKey and requestCount(req), which decodes the cloned body     *)
(* through its reader.                                                      *)
LoggerCount(r) ==
    /\ lg[r].log = "count"
    /\ LET bytes == ReadView(lg[r].buf, lg[r].n)
           c == requestCountEarlier([contentType |-> "application/json",
                                     body |-> NewReader(ToRuns(bytes))])
       IN  lg' = [lg EXCEPT ![r] = [@ EXCEPT !.log = "encode", !.seen = bytes,
                                             !.count = c.count,
                                             !.late = (lg[r].srv = "returned")]]
    /\ UNCHANGED << bufferPool, buffers, pipeVars, rateVars, call >>

\* log: Get and Reset a buffer and encode the entry into it.
LoggerEncode(r) ==
    /\ lg[r].log = "encode"
    /\ \E b \in GetChoices :
         /\ bufferPool' = bufferPool \ {b}
         /\ buffers' = BuffersAfterWrite(b, EncodeDto(lg[r].id, lg[r].count))
         /\ lg' = [lg EXCEPT ![r] = [@ EXCEPT !.log = "do", !.ebuf = b]]
    /\ UNCHANGED << pipeVars, rateVars, call >>

(* log: http.NewRequest, client.Do (which sends the bytes of the buffer),   *)
(* the check of err and of the status, and the deferred Put of the buffer.  *)
LoggerDo(r, o) ==
    /\ lg[r].log = "do"
    /\ lg' = [lg EXCEPT ![r] =
                [@ EXCEPT !.log = "done", !.res = o,
                          !.sent = ReadView(lg[r].ebuf,
                                            Len(EncodeDto(lg[r].id, lg[r].count)))]]
    /\ bufferPool' = bufferPool \cup {lg[r].ebuf}
    /\ UNCHANGED << buffers, pipeVars, rateVars, call >>

NextLogger ==
    \/ \E r \in LogRequests : \E in \in LogInputs(r) : LoggerGet(r, in)
    \/ \E r \in LogRequests : \E k \in 1..MaxLogBody : LoggerCopy(r, k)
    \/ \E r \in LogRequests : LoggerCopied(r)
    \/ \E r \in LogRequests : LoggerForward(r)
    \/ \E r \in LogRequests : LoggerCount(r)
    \/ \E r \in LogRequests : LoggerEncode(r)
    \/ \E r \in LogRequests : \E o \in FlushOutcomes : LoggerDo(r, o)

SpecLogger == InitLogger /\ [][NextLogger]_vars

\* C19, first part: log decodes the telemetry copy while ServeHTTP still holds the
\* buffer behind it, never after the buffer went back to the pool.
C19_ReadWhileBorrowed ==
    \A r \in LogRequests : lg[r].log \in {"encode", "do", "done"} => ~lg[r].late

\* C19, second part: what log decodes are the bytes ServeHTTP copied from the body
\* of its own request, not bytes another borrower of the buffer wrote over them.
C19_ReadsOwnBody ==
    \A r \in LogRequests :
        lg[r].log \in {"encode", "do", "done"} =>
            lg[r].seen = lg[r].body /\ lg[r].count = r

\* C19: no task reads a pooled buffer's bytes after the buffer has been returned to
\* the pool: the telemetry copy is never read by the log task after ServeHTTP has
\* returned its buffer, and so is never overwritten by another borrower first.
C19_NoUseAfterReturn == C19_ReadWhileBorrowed /\ C19_ReadsOwnBody

-----------------------------------------------------------------------------
(* Properties of the rate-limit variant (specification SpecRate).          *)

\* The requests of user u that went through the branch of a user with a record and
\* were admitted: each of them executed v.usage++ and stored v.
Admitted(u) ==
    {r \in RateRequests : rl[r].user = u /\ rl[r].v.ok /\ rl[r].wrote}

\* C11: the usage of a user's record equals the number of admitted requests of that
\* user that found the record, under every interleaving: no increment is lost.
C11_NoLostUpdate ==
    \A u \in UserIds :
        userUsageLimit[u].ok => userUsageLimit[u].usage = Cardinality(Admitted(u))

\* A path whose request id is malformed for pattern p: no segment matches (the id is
\* the empty string), or what follows the id's prefix does not parse as a UUID.
MalformedId(p, path) ==
    LET id == requestKeyRate(p, path).id
    IN  \/ Len(id) < IdPrefixLength
        \/ UUIDParse(SubSeq(id, IdPrefixLength + 1, Len(id))).err

\* C12: with a pattern that compiles, every request whose path has no match or whose
\* match does not parse as the identifier is answered 400 and is not forwarded; the
\* handler does not fail in any other way on it.
C12_MalformedIdIs400 ==
    \A r \in RateRequests :
        (/\ rl[r].pc # "idle"
         /\ Compiles(crossover.requestIdPattern)
         /\ MalformedId(crossover.requestIdPattern, rl[r].path)) =>
            /\ rl[r].pc = "done"
            /\ rl[r].status = StatusBadRequest
            /\ rl[r].forwarded = 0

\* C12, the half the code keeps: a match whose tail does not parse as a UUID is
\* answered 400 and is not forwarded.
C12_UnparsableIs400 ==
    \A r \in RateRequests :
        (/\ rl[r].pc # "idle"
         /\ Compiles(crossover.requestIdPattern)
         /\ Len(requestKeyRate(crossover.requestIdPattern, rl[r].path).id) >= IdPrefixLength
         /\ MalformedId(crossover.requestIdPattern, rl[r].path)) =>
            /\ rl[r].pc = "done"
            /\ rl[r].status = StatusBadRequest
            /\ rl[r].forwarded = 0

\* C14: an invalid identifier pattern makes New fail, so that a handler that was
\* built has a pattern that compiles and no request of it fails on the compilation
\* of the pattern.
C14_InvalidPatternFailsNew ==
    crossover.state = "running" =>
        /\ Compiles(crossover.requestIdPattern)
        /\ \A r \in RateRequests :
               rl[r].pc # "idle" => ~requestKeyRate(crossover.requestIdPattern, rl[r].path).panic

\* C14 in the telemetry variant: New compiles the pattern (regexp.MustCompile) and
\* yields no handler when it does not compile.
C14_ActivityCompilesInNew ==
    ~Compiles(config.Pattern) => act.state # "running" /\ agg.pc = "off"

\* C18, first part: no step lowers the usage of a record.
C18_UsageNotLowered ==
    \A u \in UserIds :
        userUsageLimit[u].ok =>
            userUsageLimit'[u].ok /\ userUsageLimit'[u].usage >= userUsageLimit[u].usage

\* C18, second part: the store of a refresh (RateLimitPlan called by Ticking on a
\* key of the map) leaves the usage of the record as it is.
C18_RefreshKeepsUsage ==
    (ticker.pc = "planWrite" /\ ticker'.pc # "planWrite") =>
        userUsageLimit'[ticker.key].usage = userUsageLimit[ticker.key].usage

\* C18: the usage of a user's record never decreases under any interleaving of the
\* request tasks and the refresh task, and a refresh changes planLimit only.
C18_UsageNeverDecreases ==
    [][C18_UsageNotLowered /\ C18_RefreshKeepsUsage]_vars

\* C20, first part: a rejected request (429) leaves the map as it is, is not
\* forwarded and sends no usage report.
C20_RejectedChangesNothing ==
    \A r \in RateRequests :
        (rl[r].pc # "done" /\ rl'[r].pc = "done" /\ rl'[r].status = StatusTooManyRequests) =>
            /\ userUsageLimit' = userUsageLimit
            /\ rl'[r].forwarded = 0
            /\ rl'[r].stored = 0

\* C20, second part: a request of a user with a record that is not rejected raises
\* the usage of the record by exactly 1 and leaves its planLimit.
C20_AdmittedAddsOne ==
    \A r \in RateRequests :
        (rl[r].pc = "check" /\ rl'[r].pc = "print") =>
            /\ userUsageLimit'[rl[r].user].usage = userUsageLimit[rl[r].user].usage + 1
            /\ userUsageLimit'[rl[r].user].planLimit = userUsageLimit[rl[r].user].planLimit

\* C20, third part: a request that was admitted and has stored ends forwarded, with
\* one usage report, and leaves the map as it is after its store.
C20_AdmittedIsForwarded ==
    \A r \in RateRequests :
        (/\ rl[r].pc \in {"print", "report", "forward"} /\ rl[r].v.ok
         /\ rl'[r].pc # rl[r].pc) =>
            /\ rl'[r].pc \in {"report", "forward", "done"}
            /\ rl'[r].pc = "done" => rl'[r].forwarded = 1 /\ rl'[r].stored = 1
            /\ userUsageLimit' = userUsageLimit

\* C20, second part relative to what the request read: it stores the usage it found
\* plus 1, and when it runs to its end it is forwarded.
C20_AdmittedStoresReadPlusOne ==
    \A r \in RateRequests :
        /\ (rl[r].pc = "check" /\ rl'[r].pc = "print") =>
               userUsageLimit'[rl[r].user].usage = rl[r].v.usage + 1
        /\ (rl[r].pc = "forward" /\ rl[r].v.ok /\ rl'[r].pc = "done") =>
               /\ rl'[r].forwarded = 1 /\ rl'[r].stored = 1
               /\ userUsageLimit' = userUsageLimit

\* C20: a rejected request changes nothing (record, downstream, usage report); a
\* request of a user with a record that is not rejected increments usage by exactly
\* 1 and is forwarded.
C20_RequestFrame ==
    [][C20_RejectedChangesNothing /\ C20_AdmittedAddsOne /\ C20_AdmittedIsForwarded]_vars

\* C20, what holds: the frame of a rejection, and an admitted request stores the
\* usage it read plus 1.
C20_FrameOfWhatWasRead ==
    [][C20_RejectedChangesNothing /\ C20_AdmittedStoresReadPlusOne]_vars

\* C22, first part: a request that found no record of its user is over forwarded,
\* with one usage report and no 429, whether its fetch succeeded or failed.
C22_ForwardedUnchecked ==
    \A r \in RateRequests :
        (rl[r].pc = "done" /\ rl[r].user # << >> /\ ~rl[r].v.ok) =>
            /\ rl[r].fetched \in {"ok", "failed"}
            /\ rl[r].status = 0 /\ rl[r].forwarded = 1 /\ rl[r].stored = 1

\* C22, second part: the step of a failed fetch leaves the map as it is.
C22_FailedFetchStoresNothing ==
    \A r \in RateRequests :
        (rl[r].pc = "fetch" /\ rl'[r].pc = "print") =>
            rl'[r].fetched = "failed" /\ userUsageLimit' = userUsageLimit

\* C22, third part: the store after a successful fetch creates the record with
\* usage 0 and the fetched limit, or, when a record was there by then, changes its
\* planLimit and adds nothing to the usage it read: the request is not counted.
C22_StoreDoesNotCount ==
    \A r \in RateRequests :
        (rl[r].pc = "planWrite" /\ rl'[r].pc = "print") =>
            /\ rl[r].fetched = "ok"
            /\ userUsageLimit'[rl[r].user] =
                   [ok |-> TRUE, planLimit |-> rl[r].limit,
                    usage |-> IF rl[r].pv.ok THEN rl[r].pv.usage ELSE 0]

\* C22, fourth part: a record appears only in the store of a request whose fetch
\* succeeded, and with usage 0.
C22_RecordCreation ==
    \A u \in UserIds :
        (~userUsageLimit[u].ok /\ userUsageLimit'[u].ok) =>
            /\ userUsageLimit'[u].usage = 0
            /\ \E r \in RateRequests :
                   /\ rl[r].pc = "planWrite" /\ rl'[r].pc = "print"
                   /\ rl[r].user = u /\ rl[r].fetched = "ok"

\* C22, what holds: a request of a user with no record that runs to its end is
\* forwarded without an admission check and without being counted, whether the
\* fetch of the plan limit succeeds or fails; a record is created only by a
\* successful fetch and starts with usage 0, and a failed fetch creates none.
C22_NoRecordPath ==
    /\ []C22_ForwardedUnchecked
    /\ [][C22_FailedFetchStoresNothing /\ C22_StoreDoesNotCount /\ C22_RecordCreation]_vars

\* C22, first part for every request that is over, ended by a fatal error of the
\* runtime or not: it was forwarded, with one usage report and no 429.
C22_OverIsForwarded ==
    \A r \in RateRequests :
        (rl[r].pc \in {"done", "killed"} /\ rl[r].user # << >> /\ ~rl[r].v.ok) =>
            rl[r].status = 0 /\ rl[r].forwarded = 1 /\ rl[r].stored = 1

\* C22: a request of a user with no record is forwarded without an admission check
\* and without being counted, whether the fetch of the plan limit succeeds or fails;
\* a record is created only by a successful fetch and starts with usage 0, and a
\* failed fetch creates none.
C22_NoRecordForwarded ==
    /\ []C22_OverIsForwarded
    /\ [][C22_FailedFetchStoresNothing /\ C22_StoreDoesNotCount /\ C22_RecordCreation]_vars

\* C22 witness: one request's fetch failed and it was forwarded leaving no record;
\* another's fetch succeeded, it was forwarded, and the record it made has usage 0.
C22_Witness ==
    \E r, q \in RateRequests :
        /\ rl[r].pc = "done" /\ rl[r].fetched = "failed" /\ rl[r].forwarded = 1
        /\ rl[q].pc = "done" /\ rl[q].fetched = "ok" /\ rl[q].forwarded = 1
        /\ ~rl[q].pv.ok
        /\ userUsageLimit[rl[q].user] = [ok |-> TRUE, planLimit |-> rl[q].limit, usage |-> 0]

-----------------------------------------------------------------------------
(* Construction (New) and the aggregator's timer, queue order and progress  *)
(* (specification Spec).                                                    *)

MissingRequiredField ==
    config.APIKey = "" \/ config.Pattern = "" \/ config.RemoteAddress = ""

\* C13: when APIKey, Pattern or RemoteAddress is empty, New returns an error and no
\* handler: no aggregator is started, no queue is created and no request is served.
C13_MissingFieldNoHandler ==
    (act.state # "none" /\ MissingRequiredField) =>
        /\ act.state = "error" /\ act.err # ""
        /\ agg.pc = "off"
        /\ act.cap = 0 /\ logsChannel = << >>
        /\ \A r \in Requests : reqs[r].pc = "idle"

\* C13 witness: New has returned the error for an empty RemoteAddress.
C13_Witness ==
    /\ config.RemoteAddress = "" /\ config.APIKey # "" /\ config.Pattern # ""
    /\ act.state = "error"
    /\ act.err = "RemoteAddress can't be empty"

\* C13 in the rate-limit variant: with an empty required field New returns an error,
\* Ticking is not started and no request is served.
C13_CrossoverMissingField ==
    (/\ crossover.state # "none"
     /\ \/ config.APIKey = "" \/ config.RequestIdPattern = ""
        \/ config.RateLimitStoreURL = "" \/ config.RateLimitPlanLimitURL = "") =>
        /\ crossover.state = "error" /\ crossover.err # ""
        /\ ticker.pc = "off"
        /\ \A r \in RateRequests : rl[r].pc = "idle"

\* The timer case of the select is taken, and the timer case is over.
TimerExpiryTaken == agg.pc = "select" /\ agg.timerC /\ ~agg'.timerC
TimerCaseOver ==
    \/ TimerExpiryTaken /\ agg'.pc # "flush"
    \/ agg.pc = "flush" /\ agg.kind = "timer" /\ agg'.pc # "flush"

\* C15, first part: on a timer expiry flushLogs is called if and only if the batch is
\* not empty, and no empty batch is ever handed to flushLogs.
C15_FlushIffNonEmpty == TimerExpiryTaken => (FlushStarts <=> batch # << >>)
C15_NoEmptyPost == \A i \in 1..Len(posts) : posts[i] # << >>

\* C15, second part: when the timer case is over, with or without a flush, the
\* aggregator is back at its select with the timer armed to the full interval.
C15_RearmedAfterExpiry ==
    TimerCaseOver =>
        agg'.pc = "select" /\ agg'.timerLeft = act.flushInterval /\ ~agg'.timerC

\* C15: on every flush-timer expiry the aggregator flushes if and only if the batch
\* is non-empty (an empty batch is never POSTed), and re-arms the timer to the
\* configured interval in both cases.
C15_TimerExpiry ==
    /\ [][C15_FlushIffNonEmpty]_vars
    /\ []C15_NoEmptyPost
    /\ [][C15_RearmedAfterExpiry]_vars

\* C15 for the flushes that return: the same, for every timer case that does not end
\* in the panic of flushLogs.
C15_TimerExpiryWhenFlushReturns ==
    /\ [][C15_FlushIffNonEmpty]_vars
    /\ []C15_NoEmptyPost
    /\ [][~crashed' => C15_RearmedAfterExpiry]_vars

\* The entry of request r waits in the queue or in the batch; it was handed to
\* flushLogs.
Waiting(r) == \E e \in Range(logsChannel) \cup Range(batch) : e.src = r
Flushed(r) == \E e \in Range(Flatten(posts)) : e.src = r

\* C16: under fair scheduling, every entry accepted into the queue is eventually in a
\* batch handed to flushLogs, unless a call of flushLogs does not return (the process
\* is then gone).
C16_EventuallyFlushed ==
    \A r \in Requests : Waiting(r) ~> (Flushed(r) \/ crashed)

\* C16 witness: every request is over, and an entry that was alone in a partial batch
\* has been flushed by the timer.
C16_Witness ==
    /\ \A r \in Requests : reqs[r].pc = "done"
    /\ agg.kind = "timer" /\ ~crashed
    /\ posts # << >>
    /\ Len(posts[Len(posts)]) < act.batchSize
    /\ logsChannel = << >> /\ batch = << >>

\* The entries in the pipeline, oldest first: the batches handed to flushLogs, the
\* batch being accumulated (the batch inside a call of flushLogs is the last of the
\* flushed ones), and the queue.
InFlush == agg.pc \in {"flush", "dead"}
PipelineOrder == Flatten(posts) \o (IF InFlush THEN << >> ELSE batch) \o logsChannel

\* C17: at every state the flushed batches in flush order, then the current batch,
\* then the queue, are the accepted entries in acceptance order: nothing is
\* reordered, duplicated or lost after acceptance.
C17_AcceptanceOrderKept == PipelineOrder = accepted

\* C17 witness: three accepted entries, one flushed, one in the batch, one queued.
C17_Witness ==
    /\ Len(accepted) >= 3
    /\ posts # << >> /\ ~InFlush
    /\ batch # << >>
    /\ logsChannel # << >>

\* What ServeHTTP intercepted of the body of request r.
Intercepted(r) == Take(ReadableInput(r).stream.data, MaxRequestBodySize)

\* C21, first part: once requestCount has run on the telemetry copy, the downstream
\* body is unread and open, and holds the intercepted bytes.
C21_DownstreamUntouched ==
    \A r \in Requests :
        reqs[r].pc \in {"enqueue", "forward"} =>
            /\ reqs[r].body[1].pos = 0 /\ ~reqs[r].body[1].closed
            /\ reqs[r].body[1].data = Intercepted(r)

\* C21, second part: whatever requestCount did to the telemetry copy, the downstream
\* handler read the whole intercepted body, from its first byte.
C21_DownstreamReadsAll ==
    \A r \in Requests :
        reqs[r].forwarded = 1 => reqs[r].down = << Intercepted(r) >>

\* C21: the two body copies are independent: the telemetry copy fully consumed and
\* closed by requestCount leaves the downstream copy unread, and the downstream
\* handler reads the whole intercepted body from its first byte.
C21_CopiesIndependent == C21_DownstreamUntouched /\ C21_DownstreamReadsAll

\* C21 witness: requestCount read a JSON body's telemetry copy to its end and closed
\* it, and the downstream handler has read all the bytes of that body.
C21_Witness ==
    \E r \in Requests :
        /\ reqs[r].pc = "done" /\ reqs[r].forwarded = 1
        /\ reqs[r].clone[1].closed
        /\ reqs[r].clone[1].pos = BodyLen(Intercepted(r))
        /\ reqs[r].clone[1].pos > 0
        /\ reqs[r].down = << Intercepted(r) >>

====
